---- MODULE Spec2Model ----
(***************************************************************************)
(* Model of the Zendesk MCP server: the call-tool handler of src/index.ts  *)
(* and the ZendeskClient of src/zendesk-client.ts.                         *)
(*                                                                         *)
(* Conventions.                                                            *)
(*  - A JavaScript string that the code inspects (subject, tag) is a       *)
(*    sequence of one-character strings, so toLowerCase and includes are   *)
(*    computed character by character.                                     *)
(*  - A text the code only assembles (an error message, a query) is the    *)
(*    sequence of the pieces its template literal concatenates.            *)
(*  - A value that may be undefined is a sequence of length 0 or 1:        *)
(*    << >> is undefined, <<v>> is the value v.                            *)
(*  - A URL path is the sequence of its "/"-separated segments.            *)
(***************************************************************************)
EXTENDS Integers, Sequences, FiniteSets, TLC

VARIABLES
    calls,      \* per slot, the call-tool request being handled
    env,        \* process.env: the three ZENDESK_* variables
    process,    \* how far the process has run, and its exit status
    listing,    \* the slots in which a list-tools request is being answered
    clock,      \* the current instant and the time zone of the process
    recent      \* the request a getRecentTickets call has issued

vars == <<calls, env, process, listing, clock, recent>>

\* Number of call-tool requests the server handles at the same time.
MaxInFlight == 1

\* Largest number of tickets on a page of search results.
MaxTickets == 2

\* The instants a request may be handled at: the hours of this many hours
\* from the daylight-saving transition on.
MaxClockHours == 24

Slots == 1..MaxInFlight

Front(s) == SubSeq(s, 1, Len(s) - 1)

Last(s) == s[Len(s)]

----------------------------------------------------------------------------
(* String.prototype.toLowerCase and String.prototype.includes *)

UpperCase == <<"A","B","C","D","E","F","G","H","I","J","K","L","M",
               "N","O","P","Q","R","S","T","U","V","W","X","Y","Z">>

LowerCase == <<"a","b","c","d","e","f","g","h","i","j","k","l","m",
               "n","o","p","q","r","s","t","u","v","w","x","y","z">>

toLowerCaseChar(c) ==
    IF \E i \in 1..26 : UpperCase[i] = c
    THEN LowerCase[CHOOSE i \in 1..26 : UpperCase[i] = c]
    ELSE c

toLowerCase(s) == [i \in 1..Len(s) |-> toLowerCaseChar(s[i])]

includes(s, sub) ==
    \E i \in 0..(Len(s) - Len(sub)) : SubSeq(s, i + 1, i + Len(sub)) = sub

some(arr, P(_)) == \E i \in 1..Len(arr) : P(arr[i])

filter(arr, P(_)) ==
    LET kept[i \in 0..Len(arr)] ==
            IF i = 0 THEN << >>
            ELSE IF P(arr[i]) THEN Append(kept[i - 1], arr[i]) ELSE kept[i - 1]
    IN  kept[Len(arr)]

map(arr, F(_)) == [i \in 1..Len(arr) |-> F(arr[i])]

s_bug == <<"b","u","g">>

s_issue == <<"i","s","s","u","e">>

s_feature == <<"f","e","a","t","u","r","e">>

s_enhancement == <<"e","n","h","a","n","c","e","m","e","n","t">>

s_feature_request == s_feature \o <<" ">> \o <<"r","e","q","u","e","s","t">>

----------------------------------------------------------------------------
(* Remote state: the tickets and articles the vendor API can return.  Only
   the fields the handlers read or copy are kept. *)

\* {id: 1, subject: "App crashes on login", tags: ["bug", "mobile"], status: "open"}
Ticket1 ==
    [id |-> 1,
     subject |-> <<"A","p","p"," ","c","r","a","s","h","e","s"," ","o","n"," ","l","o","g","i","n">>,
     tags |-> <<<<"b","u","g">>, <<"m","o","b","i","l","e">>>>,
     status |-> "open"]

\* {id: 2, subject: "Please add dark mode", tags: ["enhancement"], status: "open"}
Ticket2 ==
    [id |-> 2,
     subject |-> <<"P","l","e","a","s","e"," ","a","d","d"," ","d","a","r","k"," ","m","o","d","e">>,
     tags |-> <<<<"e","n","h","a","n","c","e","m","e","n","t">>>>,
     status |-> "open"]

\* {id: 3, subject: "Login issue", tags: [], status: "new"}
Ticket3 ==
    [id |-> 3,
     subject |-> <<"L","o","g","i","n"," ","i","s","s","u","e">>,
     tags |-> <<>>,
     status |-> "new"]

\* {id: 4, subject: "Export help", tags: ["billing"], status: "solved"}
Ticket4 ==
    [id |-> 4,
     subject |-> <<"E","x","p","o","r","t"," ","h","e","l","p">>,
     tags |-> <<<<"b","i","l","l","i","n","g">>>>,
     status |-> "solved"]

\* {id: 5, subject: "Export", tags: ["Feature_X"], status: "open"}
Ticket5 ==
    [id |-> 5,
     subject |-> <<"E","x","p","o","r","t">>,
     tags |-> <<<<"F","e","a","t","u","r","e","_","X">>>>,
     status |-> "open"]

\* {id: 6, subject: "BUG in feature request", tags: ["ui"], status: "pending"}
Ticket6 ==
    [id |-> 6,
     subject |-> <<"B","U","G"," ","i","n"," ","f","e","a","t","u","r","e"," ","r","e","q","u","e","s","t">>,
     tags |-> <<<<"u","i">>>>,
     status |-> "pending"]

TicketCatalog == <<Ticket1, Ticket2, Ticket3, Ticket4, Ticket5, Ticket6>>

\* Every page a ticket search can return: at most MaxTickets consecutive
\* tickets of the catalog.
TicketPages ==
    {SubSeq(TicketCatalog, w[1], w[2]) :
        w \in {v \in (1..Len(TicketCatalog)) \X (0..Len(TicketCatalog)) :
                    v[2] - v[1] + 1 \in 0..MaxTickets}}

Article1 ==
    [id |-> 100, title |-> "Dark mode guide", html_url |-> "https://help/100", label_names |-> <<"dark-mode">>]

ArticlePages == {<< >>, <<Article1>>}

Comment1 ==
    [id |-> 900, body |-> "Same here", author_id |-> 7, public |-> TRUE]

CommentLists == {<< >>, <<Comment1>>}

----------------------------------------------------------------------------
(* search_feature_feedback: the three filters of `categorized` *)

\* The bug filter with the tag test left out.
IsBugReport_SubjectOnly(t) ==
    \/ includes(toLowerCase(t.subject), s_bug)
    \/ includes(toLowerCase(t.subject), s_issue)

IsBugReport(t) ==
    \/ some(t.tags, LAMBDA tag : includes(toLowerCase(tag), s_bug))
    \/ includes(toLowerCase(t.subject), s_bug)
    \/ includes(toLowerCase(t.subject), s_issue)

IsFeatureRequest(t) ==
    \/ some(t.tags, LAMBDA tag : \/ includes(toLowerCase(tag), s_feature)
                                 \/ includes(toLowerCase(tag), s_enhancement))
    \/ includes(toLowerCase(t.subject), s_feature_request)
    \/ includes(toLowerCase(t.subject), s_enhancement)

IsSupportQuestion(t) ==
    ~ some(t.tags, LAMBDA tag : \/ includes(toLowerCase(tag), s_bug)
                               \/ includes(toLowerCase(tag), s_feature))

categorized(results) ==
    [bug_reports |-> filter(results, IsBugReport),
     feature_requests |-> filter(results, IsFeatureRequest),
     support_questions |-> filter(results, IsSupportQuestion)]

----------------------------------------------------------------------------
(* Date: instants are whole hours since the epoch, in UTC; a calendar date is
   the number of its day since the epoch, which setDate's month arithmetic
   and the YYYY-MM-DD text both map one to one. *)

HoursPerDay == 24

\* The instant of the one daylight-saving transition of the zones below.
DstAt == 100 * HoursPerDay + 1

\* Time zones: the offset from UTC in hours before and after DstAt.
UTC == [name |-> "UTC", before |-> 0, after |-> 0]

Karachi == [name |-> "Asia/Karachi", before |-> 5, after |-> 5]

\* Clocks go forward one hour at DstAt.
Berlin == [name |-> "Europe/Berlin", before |-> 1, after |-> 2]

\* Clocks go back one hour at DstAt.
NewYork == [name |-> "America/New_York", before |-> -4, after |-> -5]

Zones == {UTC, Karachi, Berlin, NewYork}

Offset(t, zone) == IF t < DstAt THEN zone.before ELSE zone.after

\* Local time value of the instant t.
LocalTime(t, zone) == t + Offset(t, zone)

\* The instant of a local time value: the earlier one when the local time
\* occurs twice, the offset before the transition when it is skipped.
UTCTime(local, zone) ==
    LET a == local - zone.before
        b == local - zone.after
        valid == {t \in {a, b} : LocalTime(t, zone) = local}
    IN  IF valid = {} THEN a
        ELSE CHOOSE t \in valid : \A u \in valid : t <= u

\* date.setDate(date.getDate() - days): the local calendar day moves, the
\* local time of day stays.
setDateBack(t, zone, days) ==
    LET local == LocalTime(t, zone)
        day == local \div HoursPerDay
        hour == local % HoursPerDay
    IN  UTCTime((day - days) * HoursPerDay + hour, zone)

\* date.toISOString().split('T')[0]: the UTC calendar date of the instant.
toISODate(t) == [utcDay |-> t \div HoursPerDay]

\* `${dateStr}` of search_feature_feedback.
dateStr(days_back) == <<toISODate(setDateBack(clock.now, clock.zone, days_back))>>

----------------------------------------------------------------------------
(* ZendeskClient *)

\* Number.prototype.toString for the numbers the handlers pass.
toString(n) ==
    CASE n = 1 -> "1"
      [] n = 2 -> "2"
      [] n = 50 -> "50"
      [] n = 90 -> "90"
      [] n = 100 -> "100"

\* Path of baseUrl, https://<subdomain>.zendesk.com/api/v2
baseUrl == <<"api", "v2">>

\* The path `new URL(...)` keeps: "." and ".." segments are resolved.
URL(segs) ==
    LET path[i \in 0..Len(segs)] ==
            IF i = 0 THEN << >>
            ELSE IF segs[i] = ".." THEN (IF path[i - 1] = << >> THEN << >> ELSE Front(path[i - 1]))
            ELSE IF segs[i] = "." THEN path[i - 1]
            ELSE Append(path[i - 1], segs[i])
    IN  path[Len(segs)]

\* fetch(url, {headers}) is called without a method and without a body.
request(op, endpoint, params) ==
    [op |-> op,
     method |-> "GET",
     path |-> URL(baseUrl \o endpoint),
     params |-> params,
     st |-> "pending",
     status |-> "",
     errorText |-> << >>,
     val |-> << >>,
     err |-> << >>]

searchTickets(query, page, perPage) ==
    request("searchTickets", <<"search.json">>,
            <<[query |-> <<"type:ticket ">> \o query,
               per_page |-> toString(perPage),
               page |-> toString(page)]>>)

\* ticketId is the text `${ticketId}` split at "/".
getTicket(ticketId) ==
    request("getTicket",
            <<"tickets">> \o Front(ticketId) \o <<Last(ticketId) \o ".json">>,
            << >>)

searchArticles(query, page, perPage) ==
    request("searchArticles", <<"help_center", "articles", "search.json">>,
            <<[query |-> query,
               per_page |-> toString(perPage),
               page |-> toString(page)]>>)

getArticle(articleId) ==
    request("getArticle",
            <<"help_center", "articles">> \o Front(articleId) \o <<Last(articleId) \o ".json">>,
            << >>)

getTicketComments(ticketId) ==
    request("getTicketComments",
            <<"tickets">> \o ticketId \o <<"comments.json">>,
            << >>)

getTicketsByTag(tag, page, perPage) ==
    searchTickets(<<"tags:", tag>>, page, perPage)

\* The days getRecentTickets looks back.
RecentDays == 30

getRecentTickets(page, perPage) ==
    searchTickets(<<"created>">> \o dateStr(RecentDays), page, perPage)

\* The message with the status code left out.
ApiErrorMessage_NoStatus(status, errorText) ==
    <<"Zendesk API error: ", errorText>>

\* Message of the Error thrown for a response that is not ok.
ApiErrorMessage(status, errorText) ==
    <<"Zendesk API error (", status, "): ", errorText>>

\* Status codes of responses that are not ok, as `${response.status}` prints them.
ErrorStatuses == {"404", "500"}

\* Bodies of such responses.
ErrorBodies == {"RecordNotFound"}

\* Message of the error fetch, response.text() or response.json() rejects with
\* when the connection fails.
NetworkErrorMessage == <<"request failed, reason: ECONNRESET">>

\* Message of the SyntaxError response.json() rejects with.
JsonErrorMessage == <<"Unexpected token < in JSON">>

\* The JSON bodies an ok response to the request of operation op can carry.
OkBodies(op) ==
    CASE op = "searchTickets" ->
            {[results |-> p, count |-> Len(p), next_page |-> << >>] : p \in TicketPages}
      [] op = "searchArticles" ->
            {[results |-> p, count |-> Len(p), next_page |-> << >>] : p \in ArticlePages}
      [] op = "getTicket" -> {[ticket |-> <<Ticket1>>], [ticket |-> << >>]}
      [] op = "getArticle" -> {[article |-> <<Article1>>], [article |-> << >>]}
      [] op = "getTicketComments" ->
            {[comments |-> <<c>>] : c \in CommentLists} \cup {[comments |-> << >>]}

----------------------------------------------------------------------------
(* Tool dispatcher: the CallToolRequestSchema handler *)

ToolNames ==
    {"search_tickets", "get_ticket", "search_articles", "get_article",
     "search_feature_feedback", "get_tickets_by_tag"}

\* Tool names a client may send that are not in the catalog.
OtherNames == {"delete_ticket"}

\* Values a client may send as ticket_id or article_id, as the text the
\* template literal prints, split at "/": the number 1, and the string
\* "../users/me".
IdValues == {<<"1">>, <<"..", "users", "me">>}

\* The arguments a client may send with each tool name; << >> is a call
\* without arguments.
ArgumentsOf(name) ==
    {<< >>} \cup
    CASE name = "search_tickets" ->
            {<<[query |-> <<"status:open">>, page |-> << >>, per_page |-> pp]>> :
                pp \in {<< >>, <<1>>}}
      [] name = "get_ticket" ->
            {<<[ticket_id |-> id, include_comments |-> ic]>> :
                id \in IdValues, ic \in {<< >>, <<TRUE>>, <<FALSE>>}}
      [] name = "search_articles" ->
            {<<[query |-> <<"dark mode">>, page |-> << >>, per_page |-> << >>]>>}
      [] name = "get_article" ->
            {<<[article_id |-> id]>> : id \in IdValues}
      [] name = "search_feature_feedback" ->
            {<<[feature_name |-> <<"dark mode">>, include_solved |-> <<FALSE>>, days_back |-> << >>]>>}
      [] name = "get_tickets_by_tag" ->
            {<<[tag |-> "mobile", page |-> << >>, per_page |-> << >>]>>}
      [] OTHER -> {}

\* Destructuring default: `x = d` takes d when x is undefined.
Default(x, d) == IF x = << >> THEN d ELSE x[1]

\* A slot that handles no call.
Idle ==
    [name |-> "", args |-> << >>, pc |-> "idle", reqs |-> << >>,
     thrown |-> << >>, env |-> << >>]

\* Outcome of the try block: an error thrown, or the envelope returned.
Throw(message) == [threw |-> TRUE, error |-> message, value |-> << >>]

\* JSON.stringify(payload, null, 2), kept as the value it serialises.
JSONstringify(payload) == [json |-> payload]

Return(payload) ==
    [threw |-> FALSE,
     error |-> << >>,
     value |-> <<[content |-> <<[type |-> "text", text |-> <<JSONstringify(payload)>>]>>,
                  isError |-> FALSE]>>]

TypeErrorDestructure == <<"Cannot destructure property of undefined">>

TypeErrorRead(prop) == <<"Cannot read properties of undefined (reading '", prop, "')">>

\* The handler without its catch block: an error thrown in the try block
\* rejects the handler's promise.
Settle_Rethrow(c, outcome) ==
    IF outcome.threw
    THEN [c EXCEPT !.pc = "threw", !.thrown = <<outcome.error>>]
    ELSE [c EXCEPT !.pc = "done", !.env = outcome.value]

\* The catch block and the two return paths: the handler's promise settles
\* with an envelope whatever the try block did.
Settle(c, outcome) ==
    IF outcome.threw
    THEN [c EXCEPT !.pc = "done",
                   !.thrown = <<outcome.error>>,
                   !.env = <<[content |-> <<[type |-> "text",
                                             text |-> <<"Error: ">> \o outcome.error]>>,
                              isError |-> TRUE]>>]
    ELSE [c EXCEPT !.pc = "done", !.env = outcome.value]


ticketQuery(feature_name, include_solved, days_back) ==
    feature_name \o <<" created>">> \o dateStr(days_back)
        \o (IF ~ include_solved THEN <<" status<solved">> ELSE << >>)

\* get_ticket starting the comments fetch together with the ticket fetch.
FirstRequests_TicketAndComments(name, a) ==
    CASE name = "search_tickets" ->
            <<searchTickets(a.query, Default(a.page, 1), Default(a.per_page, 50))>>
      [] name = "get_ticket" ->
            <<getTicket(a.ticket_id), getTicketComments(a.ticket_id)>>
      [] name = "search_articles" ->
            <<searchArticles(a.query, Default(a.page, 1), Default(a.per_page, 50))>>
      [] name = "get_article" ->
            <<getArticle(a.article_id)>>
      [] name = "search_feature_feedback" ->
            <<searchTickets(ticketQuery(a.feature_name,
                                        Default(a.include_solved, TRUE),
                                        Default(a.days_back, 90)), 1, 100),
              searchArticles(a.feature_name, 1, 50)>>
      [] name = "get_tickets_by_tag" ->
            <<getTicketsByTag(a.tag, Default(a.page, 1), Default(a.per_page, 50))>>

\* search_feature_feedback awaiting the ticket search before it starts the
\* article search.
FirstRequests_Sequential(name, a) ==
    CASE name = "search_tickets" ->
            <<searchTickets(a.query, Default(a.page, 1), Default(a.per_page, 50))>>
      [] name = "get_ticket" ->
            <<getTicket(a.ticket_id)>>
      [] name = "search_articles" ->
            <<searchArticles(a.query, Default(a.page, 1), Default(a.per_page, 50))>>
      [] name = "get_article" ->
            <<getArticle(a.article_id)>>
      [] name = "search_feature_feedback" ->
            <<searchTickets(ticketQuery(a.feature_name,
                                        Default(a.include_solved, TRUE),
                                        Default(a.days_back, 90)), 1, 100)>>
      [] name = "get_tickets_by_tag" ->
            <<getTicketsByTag(a.tag, Default(a.page, 1), Default(a.per_page, 50))>>

\* The requests a case of the switch issues before its first await.
FirstRequests(name, a) ==
    CASE name = "search_tickets" ->
            <<searchTickets(a.query, Default(a.page, 1), Default(a.per_page, 50))>>
      [] name = "get_ticket" ->
            <<getTicket(a.ticket_id)>>
      [] name = "search_articles" ->
            <<searchArticles(a.query, Default(a.page, 1), Default(a.per_page, 50))>>
      [] name = "get_article" ->
            <<getArticle(a.article_id)>>
      [] name = "search_feature_feedback" ->
            <<searchTickets(ticketQuery(a.feature_name,
                                        Default(a.include_solved, TRUE),
                                        Default(a.days_back, 90)), 1, 100),
              searchArticles(a.feature_name, 1, 50)>>
      [] name = "get_tickets_by_tag" ->
            <<getTicketsByTag(a.tag, Default(a.page, 1), Default(a.per_page, 50))>>

\* The handler destructuring the arguments before it switches on the name.
Begin_ArgsFirst(name, args) ==
    LET c == [Idle EXCEPT !.name = name, !.args = args, !.pc = "await"]
    IN  IF args = << >> THEN Settle(c, Throw(TypeErrorDestructure))
        ELSE IF name \notin ToolNames THEN Settle(c, Throw(<<"Unknown tool: ", name>>))
        ELSE [c EXCEPT !.reqs = FirstRequests(name, args[1])]

\* The handler from its entry to its first await, or to its end when it
\* throws before issuing a request.
Begin(name, args) ==
    LET c == [Idle EXCEPT !.name = name, !.args = args, !.pc = "await"]
    IN  IF name \notin ToolNames THEN Settle(c, Throw(<<"Unknown tool: ", name>>))
        ELSE IF args = << >> THEN Settle(c, Throw(TypeErrorDestructure))
        ELSE [c EXCEPT !.reqs = FirstRequests(name, args[1])]

\* Value the await of request i of call c produced.
Awaited(c, i) == c.reqs[i].val[1]

Min(a, b) == IF a <= b THEN a ELSE b

\* search_tickets cutting the page it received down to per_page tickets.
SearchTicketsResult_Truncated(c) ==
    LET a == c.args[1]
        results == Awaited(c, 1)
        kept == SubSeq(results.results, 1,
                       Min(Default(a.per_page, 50), Len(results.results)))
    IN  Return([total_count |-> results.count,
                page |-> Default(a.page, 1),
                per_page |-> Default(a.per_page, 50),
                has_more |-> results.next_page # << >>,
                tickets |-> map(kept,
                                LAMBDA ticket : [id |-> ticket.id,
                                                 subject |-> ticket.subject,
                                                 status |-> ticket.status,
                                                 tags |-> ticket.tags])])

SearchTicketsResult(c) ==
    LET a == c.args[1]
        results == Awaited(c, 1)
    IN  Return([total_count |-> results.count,
                page |-> Default(a.page, 1),
                per_page |-> Default(a.per_page, 50),
                has_more |-> results.next_page # << >>,
                tickets |-> map(results.results,
                                LAMBDA ticket : [id |-> ticket.id,
                                                 subject |-> ticket.subject,
                                                 status |-> ticket.status,
                                                 tags |-> ticket.tags])])

GetTicketResult(c) ==
    LET ticket == Awaited(c, 1).ticket
        comments == IF Len(c.reqs) = 2 THEN Awaited(c, 2).comments ELSE << << >> >>
    IN  IF ticket = << >> THEN Throw(TypeErrorRead("id"))
        ELSE IF comments = << >> THEN Throw(TypeErrorRead("map"))
        ELSE Return([ticket |-> [id |-> ticket[1].id,
                                 subject |-> ticket[1].subject,
                                 status |-> ticket[1].status,
                                 tags |-> ticket[1].tags],
                     comments |-> map(comments[1],
                                      LAMBDA comment : [id |-> comment.id,
                                                        body |-> comment.body,
                                                        author_id |-> comment.author_id,
                                                        public |-> comment.public])])

SearchArticlesResult(c) ==
    LET a == c.args[1]
        results == Awaited(c, 1)
    IN  Return([total_count |-> results.count,
                page |-> Default(a.page, 1),
                per_page |-> Default(a.per_page, 50),
                has_more |-> results.next_page # << >>,
                articles |-> map(results.results,
                                 LAMBDA article : [id |-> article.id,
                                                   title |-> article.title,
                                                   url |-> article.html_url,
                                                   labels |-> article.label_names])])

GetArticleResult(c) ==
    LET article == Awaited(c, 1).article
    IN  IF article = << >> THEN Throw(TypeErrorRead("id"))
        ELSE Return([id |-> article[1].id,
                     title |-> article[1].title,
                     url |-> article[1].html_url,
                     labels |-> article[1].label_names])

TrimFeedbackTicket(t) ==
    [id |-> t.id, subject |-> t.subject, status |-> t.status, tags |-> t.tags]

SearchFeatureFeedbackResult(c) ==
    LET a == c.args[1]
        tickets == Awaited(c, 1)
        articles == Awaited(c, 2)
        cat == categorized(tickets.results)
    IN  Return([feature |-> a.feature_name,
                search_period_days |-> Default(a.days_back, 90),
                summary |-> [total_tickets |-> tickets.count,
                             bug_reports |-> Len(cat.bug_reports),
                             feature_requests |-> Len(cat.feature_requests),
                             support_questions |-> Len(cat.support_questions),
                             related_articles |-> articles.count],
                bug_reports |-> map(cat.bug_reports, TrimFeedbackTicket),
                feature_requests |-> map(cat.feature_requests, TrimFeedbackTicket),
                support_questions |-> map(cat.support_questions, TrimFeedbackTicket),
                related_articles |-> map(articles.results,
                                         LAMBDA x : [id |-> x.id,
                                                     title |-> x.title,
                                                     url |-> x.html_url,
                                                     labels |-> x.label_names])])

GetTicketsByTagResult(c) ==
    LET a == c.args[1]
        results == Awaited(c, 1)
    IN  Return([tag |-> a.tag,
                total_count |-> results.count,
                page |-> Default(a.page, 1),
                per_page |-> Default(a.per_page, 50),
                has_more |-> results.next_page # << >>,
                tickets |-> map(results.results,
                                LAMBDA ticket : [id |-> ticket.id,
                                                 subject |-> ticket.subject,
                                                 status |-> ticket.status,
                                                 tags |-> ticket.tags])])

\* Promise.all over the requests of c: TRUE once every one has resolved.
AllResolved(c) == \A i \in 1..Len(c.reqs) : c.reqs[i].st = "resolved"

\* TRUE when the handler of c is suspended on a promise that request i settles:
\* the single awaited request, or either request under Promise.all.
Awaits(c, i) ==
    /\ c.pc = "await"
    /\ \/ c.name = "search_feature_feedback"
       \/ i = Len(c.reqs)

\* get_ticket fetching the comments whatever include_comments is.
Resume_AlwaysComments(c, i) ==
    CASE c.name = "search_tickets" -> Settle(c, SearchTicketsResult(c))
      [] c.name = "get_ticket" ->
            IF i = 1
            THEN [c EXCEPT !.reqs = Append(@, getTicketComments(c.args[1].ticket_id))]
            ELSE Settle(c, GetTicketResult(c))
      [] c.name = "search_articles" -> Settle(c, SearchArticlesResult(c))
      [] c.name = "get_article" -> Settle(c, GetArticleResult(c))
      [] c.name = "search_feature_feedback" ->
            IF AllResolved(c) THEN Settle(c, SearchFeatureFeedbackResult(c)) ELSE c
      [] c.name = "get_tickets_by_tag" -> Settle(c, GetTicketsByTagResult(c))

\* The handler resumed after the await of request i produced a value.
Resume(c, i) ==
    CASE c.name = "search_tickets" -> Settle(c, SearchTicketsResult(c))
      [] c.name = "get_ticket" ->
            IF i = 1 /\ Default(c.args[1].include_comments, TRUE)
            THEN [c EXCEPT !.reqs = Append(@, getTicketComments(c.args[1].ticket_id))]
            ELSE Settle(c, GetTicketResult(c))
      [] c.name = "search_articles" -> Settle(c, SearchArticlesResult(c))
      [] c.name = "get_article" -> Settle(c, GetArticleResult(c))
      [] c.name = "search_feature_feedback" ->
            IF AllResolved(c) THEN Settle(c, SearchFeatureFeedbackResult(c)) ELSE c
      [] c.name = "get_tickets_by_tag" -> Settle(c, GetTicketsByTagResult(c))

\* Request i of call c resolves with the parsed body v.
Resolve(c, i, v) ==
    LET d == [c EXCEPT !.reqs[i].st = "resolved", !.reqs[i].val = <<v>>]
    IN  IF Awaits(c, i) THEN Resume(d, i) ELSE d

\* request issuing the same request once more when it fails for the first
\* time.
Reject_RetryOnce(c, i, message) ==
    LET d == [c EXCEPT !.reqs[i].st = "rejected", !.reqs[i].err = message]
        retried == \E j \in 1..Len(c.reqs) : j # i /\ c.reqs[j].op = c.reqs[i].op
        again == [c.reqs[i] EXCEPT !.st = "pending", !.status = "", !.errorText = << >>]
    IN  IF ~ retried THEN [d EXCEPT !.reqs = Append(@, again)]
        ELSE IF Awaits(c, i) THEN Settle(d, Throw(message))
        ELSE d

\* Promise.allSettled in place of Promise.all: the failure is raised only
\* once every request of the call has settled.
Reject_WaitForAll(c, i, message) ==
    LET d == [c EXCEPT !.reqs[i].st = "rejected", !.reqs[i].err = message]
    IN  IF Awaits(c, i) /\ \A j \in 1..Len(d.reqs) : d.reqs[j].st \in {"resolved", "rejected"}
        THEN Settle(d, Throw(message))
        ELSE d

\* Request i of call c rejects with an error of the given message.
Reject(c, i, message) ==
    LET d == [c EXCEPT !.reqs[i].st = "rejected", !.reqs[i].err = message]
    IN  IF Awaits(c, i) THEN Settle(d, Throw(message)) ELSE d

----------------------------------------------------------------------------
(* Actions *)

EnvNames == {"ZENDESK_SUBDOMAIN", "ZENDESK_EMAIL", "ZENDESK_API_TOKEN"}

\* A variable of the environment is unset, empty or set.
EnvValues == {<< >>, <<"">>, <<"acme">>}

\* `!x` for a string that may be undefined.
Not(x) == x = << >> \/ x[1] = ""

\* The test of the startup check with the empty string let through.
MissingConfig_UndefinedOnly(e) == \E k \in EnvNames : e[k] = << >>

\* The test of the startup check.
MissingConfig(e) == \E k \in EnvNames : Not(e[k])

\* The clock of the server's run: a fixed instant, in UTC.
RunClock == [now |-> DstAt + 11, zone |-> UTC]

Init ==
    /\ calls = [s \in Slots |-> Idle]
    /\ env \in [EnvNames -> EnvValues]
    /\ process = [pc |-> "loading", exitCode |-> << >>]
    /\ listing = {}
    /\ clock = RunClock
    /\ recent = << >>

\* The module's top level: the environment check, then the client, the
\* server and its handlers.
LoadConfig ==
    /\ process.pc = "loading"
    /\ process' = IF MissingConfig(env)
                  THEN [pc |-> "exited", exitCode |-> <<1>>]
                  ELSE [pc |-> "configured", exitCode |-> << >>]
    /\ UNCHANGED <<calls, env, listing, clock, recent>>

\* main: server.connect resolves.
Connect ==
    /\ process.pc = "configured"
    /\ process' = [process EXCEPT !.pc = "connected"]
    /\ UNCHANGED <<calls, env, listing, clock, recent>>

\* main: server.connect rejects and the catch exits.
ConnectFails ==
    /\ process.pc = "configured"
    /\ process' = [pc |-> "exited", exitCode |-> <<1>>]
    /\ UNCHANGED <<calls, env, listing, clock, recent>>

\* The connected server takes a request into slot s.
Accepts(s) ==
    /\ process.pc = "connected"
    /\ calls[s].pc = "idle"
    /\ s \notin listing

\* The ListToolsRequestSchema handler is entered; it returns TOOLS.
ListTools(s) ==
    /\ Accepts(s)
    /\ listing' = listing \cup {s}
    /\ UNCHANGED <<calls, env, process, clock, recent>>

\* The list of tools is sent to the client.
ListToolsRespond(s) ==
    /\ s \in listing
    /\ listing' = listing \ {s}
    /\ UNCHANGED <<calls, env, process, clock, recent>>

CallSearchTickets(s) ==
    /\ Accepts(s)
    /\ \E args \in ArgumentsOf("search_tickets") :
            calls' = [calls EXCEPT ![s] = Begin("search_tickets", args)]
    /\ UNCHANGED <<env, process, listing, clock, recent>>

CallGetTicket(s) ==
    /\ Accepts(s)
    /\ \E args \in ArgumentsOf("get_ticket") :
            calls' = [calls EXCEPT ![s] = Begin("get_ticket", args)]
    /\ UNCHANGED <<env, process, listing, clock, recent>>

CallSearchArticles(s) ==
    /\ Accepts(s)
    /\ \E args \in ArgumentsOf("search_articles") :
            calls' = [calls EXCEPT ![s] = Begin("search_articles", args)]
    /\ UNCHANGED <<env, process, listing, clock, recent>>

CallGetArticle(s) ==
    /\ Accepts(s)
    /\ \E args \in ArgumentsOf("get_article") :
            calls' = [calls EXCEPT ![s] = Begin("get_article", args)]
    /\ UNCHANGED <<env, process, listing, clock, recent>>

CallSearchFeatureFeedback(s) ==
    /\ Accepts(s)
    /\ \E args \in ArgumentsOf("search_feature_feedback") :
            calls' = [calls EXCEPT ![s] = Begin("search_feature_feedback", args)]
    /\ UNCHANGED <<env, process, listing, clock, recent>>

CallGetTicketsByTag(s) ==
    /\ Accepts(s)
    /\ \E args \in ArgumentsOf("get_tickets_by_tag") :
            calls' = [calls EXCEPT ![s] = Begin("get_tickets_by_tag", args)]
    /\ UNCHANGED <<env, process, listing, clock, recent>>

CallUnknownTool(s) ==
    /\ Accepts(s)
    /\ \E name \in OtherNames, args \in {<< >>, <<[ticket_id |-> <<"1">>]>>} :
            calls' = [calls EXCEPT ![s] = Begin(name, args)]
    /\ UNCHANGED <<env, process, listing, clock, recent>>

\* fetch rejects: no response arrives.
FetchFails(s, i) ==
    /\ i <= Len(calls[s].reqs)
    /\ calls[s].reqs[i].st = "pending"
    /\ calls' = [calls EXCEPT ![s] = Reject(@, i, NetworkErrorMessage)]
    /\ UNCHANGED <<env, process, listing, clock, recent>>

\* A response arrives whose status is not 2xx; request reads its body.
ResponseNotOk(s, i) ==
    /\ i <= Len(calls[s].reqs)
    /\ calls[s].reqs[i].st = "pending"
    /\ \E status \in ErrorStatuses :
            calls' = [calls EXCEPT ![s].reqs[i].st = "errorText",
                                   ![s].reqs[i].status = status]
    /\ UNCHANGED <<env, process, listing, clock, recent>>

\* response.text() resolves and request throws the API error.
ErrorTextRead(s, i) ==
    /\ i <= Len(calls[s].reqs)
    /\ calls[s].reqs[i].st = "errorText"
    /\ \E errorText \in ErrorBodies :
            calls' = [calls EXCEPT ![s] =
                        Reject([@ EXCEPT !.reqs[i].errorText = <<errorText>>], i,
                               ApiErrorMessage(calls[s].reqs[i].status, errorText))]
    /\ UNCHANGED <<env, process, listing, clock, recent>>

\* response.text() rejects: the connection fails while the body is read.
ErrorTextFails(s, i) ==
    /\ i <= Len(calls[s].reqs)
    /\ calls[s].reqs[i].st = "errorText"
    /\ calls' = [calls EXCEPT ![s] = Reject(@, i, NetworkErrorMessage)]
    /\ UNCHANGED <<env, process, listing, clock, recent>>

\* A 2xx response arrives and response.json() resolves.
ResponseOk(s, i) ==
    /\ i <= Len(calls[s].reqs)
    /\ calls[s].reqs[i].st = "pending"
    /\ \E v \in OkBodies(calls[s].reqs[i].op) :
            calls' = [calls EXCEPT ![s] = Resolve(@, i, v)]
    /\ UNCHANGED <<env, process, listing, clock, recent>>

\* A 2xx response arrives and response.json() rejects.
ResponseJsonFails(s, i) ==
    /\ i <= Len(calls[s].reqs)
    /\ calls[s].reqs[i].st = "pending"
    /\ calls' = [calls EXCEPT ![s] = Reject(@, i, JsonErrorMessage)]
    /\ UNCHANGED <<env, process, listing, clock, recent>>

\* The envelope is sent to the client; the call's data is discarded.
Respond(s) ==
    /\ calls[s].pc = "done"
    /\ calls' = [calls EXCEPT ![s] = Idle]
    /\ UNCHANGED <<env, process, listing, clock, recent>>

\* The values of days_back: absent, one day, two days.
DaysBackValues == {<< >>, <<1>>, <<2>>}

\* search_feature_feedback entered with a days_back of the client's choice.
CallSearchFeatureFeedbackDaysBack(s) ==
    /\ Accepts(s)
    /\ \E days_back \in DaysBackValues :
            calls' = [calls EXCEPT ![s] =
                        Begin("search_feature_feedback",
                              <<[feature_name |-> <<"dark mode">>,
                                 include_solved |-> << >>,
                                 days_back |-> days_back]>>)]
    /\ UNCHANGED <<env, process, listing, clock, recent>>

\* A caller of the client library invokes getRecentTickets with its default
\* page and page size; no tool of the server does.
GetRecentTickets ==
    /\ recent = << >>
    /\ recent' = <<getRecentTickets(1, 50)>>
    /\ UNCHANGED <<calls, env, process, listing, clock>>

\* A call issues at most two requests: i ranges over 1..2.
Next ==
    \/ LoadConfig
    \/ Connect
    \/ ConnectFails
    \/ \E s \in Slots : ListTools(s)
    \/ \E s \in Slots : ListToolsRespond(s)
    \/ \E s \in Slots : CallSearchTickets(s)
    \/ \E s \in Slots : CallGetTicket(s)
    \/ \E s \in Slots : CallSearchArticles(s)
    \/ \E s \in Slots : CallGetArticle(s)
    \/ \E s \in Slots : CallSearchFeatureFeedback(s)
    \/ \E s \in Slots : CallGetTicketsByTag(s)
    \/ \E s \in Slots : CallUnknownTool(s)
    \/ \E s \in Slots : Respond(s)
    \/ \E s \in Slots, i \in 1..2 : FetchFails(s, i)
    \/ \E s \in Slots, i \in 1..2 : ResponseNotOk(s, i)
    \/ \E s \in Slots, i \in 1..2 : ErrorTextRead(s, i)
    \/ \E s \in Slots, i \in 1..2 : ErrorTextFails(s, i)
    \/ \E s \in Slots, i \in 1..2 : ResponseOk(s, i)
    \/ \E s \in Slots, i \in 1..2 : ResponseJsonFails(s, i)

Spec == Init /\ [][Next]_vars

\* The clocks of the date computations: every hour of MaxClockHours hours
\* from the transition on, in every zone.
Clocks == {[now |-> DstAt + h, zone |-> zone] : h \in 0..(MaxClockHours - 1), zone \in Zones}

\* The connected server at any of the clocks.
InitDate ==
    /\ calls = [s \in Slots |-> Idle]
    /\ env = [k \in EnvNames |-> <<"acme">>]
    /\ process = [pc |-> "connected", exitCode |-> << >>]
    /\ listing = {}
    /\ clock \in Clocks
    /\ recent = << >>

NextDate ==
    \/ \E s \in Slots : CallSearchFeatureFeedbackDaysBack(s)
    \/ GetRecentTickets

\* The date thresholds computed at every clock.
SpecDate == InitDate /\ [][NextDate]_vars

----------------------------------------------------------------------------
(* Properties *)

\* The envelope call c returned, and the JSON value its text block carries.
Envelope(c) == c.env[1]

Payload(c) == Envelope(c).content[1].text[1].json

Returned(c) == c.pc = "done" /\ ~ Envelope(c).isError

Failed(c) == c.pc = "done" /\ Envelope(c).isError

Ids(bucket) == {bucket[k].id : k \in 1..Len(bucket)}

FeedbackReturned(c) == c.name = "search_feature_feedback" /\ Returned(c)

\* C1: in the payload of search_feature_feedback no ticket returned by the
\* ticket search is listed in more than one of bug_reports, feature_requests
\* and support_questions.
C1_NoTicketInTwoBuckets ==
    \A s \in Slots :
        FeedbackReturned(calls[s]) =>
            LET p == Payload(calls[s])
            IN  /\ Ids(p.bug_reports) \cap Ids(p.feature_requests) = {}
                /\ Ids(p.bug_reports) \cap Ids(p.support_questions) = {}
                /\ Ids(p.feature_requests) \cap Ids(p.support_questions) = {}

\* C2: in the payload of search_feature_feedback every ticket returned by the
\* ticket search is listed in at least one of the three buckets.
C2_NoTicketDropped ==
    \A s \in Slots :
        FeedbackReturned(calls[s]) =>
            LET p == Payload(calls[s])
            IN  Ids(Awaited(calls[s], 1).results) \subseteq
                    Ids(p.bug_reports) \cup Ids(p.feature_requests) \cup Ids(p.support_questions)

\* A search_feature_feedback call has returned a payload for a page of
\* MaxTickets tickets, among them one that only the bug filter keeps.
C2_Witness ==
    \E s \in Slots :
        /\ FeedbackReturned(calls[s])
        /\ Len(Awaited(calls[s], 1).results) = MaxTickets
        /\ Ticket1.id \in Ids(Awaited(calls[s], 1).results)
        /\ Ticket1.id \in Ids(Payload(calls[s]).bug_reports)

\* C3: classifying ticket 1 ("App crashes on login", tags bug, mobile) and
\* ticket 2 ("Please add dark mode", tag enhancement) yields bug_reports = [1],
\* feature_requests = [2], support_questions = []; a returned ticket whose
\* only classifying tag contains "enhancement" is in feature_requests and not
\* in support_questions.
C3_ExampleBuckets ==
    \A s \in Slots :
        FeedbackReturned(calls[s]) =>
            LET p == Payload(calls[s])
                results == Awaited(calls[s], 1).results
            IN  /\ results = <<Ticket1, Ticket2>> =>
                        /\ Ids(p.bug_reports) = {1}
                        /\ Ids(p.feature_requests) = {2}
                        /\ p.support_questions = << >>
                /\ Ticket2.id \in Ids(results) =>
                        /\ Ticket2.id \in Ids(p.feature_requests)
                        /\ Ticket2.id \notin Ids(p.support_questions)

\* The envelope the catch block builds for an error of the given message.
ErrorEnvelope(message) ==
    [content |-> <<[type |-> "text", text |-> <<"Error: ">> \o message]>>,
     isError |-> TRUE]

ErrorText(c) == Envelope(c).content[1].text

Contains(text, piece) == \E k \in 1..Len(text) : text[k] = piece

Rejected(c) == {i \in 1..Len(c.reqs) : c.reqs[i].st = "rejected"}

\* C4: the handler's promise never rejects.  A call in which an error was
\* thrown (unknown name, missing arguments, a rejected request, a response
\* of an unexpected shape) ends with an envelope that has isError set and one
\* text block "Error: <message>"; a call in which none was thrown ends with
\* an envelope without isError.
C4_ErrorsReturnedInBand ==
    \A s \in Slots :
        LET c == calls[s]
        IN  /\ c.pc \in {"idle", "await", "done"}
            /\ c.thrown # << >> => c.pc = "done"
            /\ (c.pc # "idle" /\ (c.name \notin ToolNames \/ c.args = << >> \/ Rejected(c) # {}))
                    => c.thrown # << >>
            /\ c.pc = "done" =>
                    /\ c.env # << >>
                    /\ c.thrown # << >> => Envelope(c) = ErrorEnvelope(c.thrown[1])
                    /\ c.thrown = << >> => ~ Envelope(c).isError

\* A call has ended with an error envelope after one of its requests was
\* answered with an HTTP error.
C4_Witness ==
    \E s \in Slots :
        /\ Failed(calls[s])
        /\ \E i \in Rejected(calls[s]) : calls[s].reqs[i].errorText # << >>

\* C5: a call whose name is not in the catalog ends at once with the
\* envelope isError, "Error: Unknown tool: <name>", and issues no request.
C5_UnknownTool ==
    \A s \in Slots :
        LET c == calls[s]
        IN  (c.pc # "idle" /\ c.name \notin ToolNames) =>
                /\ c.pc = "done"
                /\ c.env = <<ErrorEnvelope(<<"Unknown tool: ", c.name>>)>>
                /\ c.reqs = << >>

\* A call of the unknown tool delete_ticket, sent without arguments, has ended.
C5_Witness ==
    \E s \in Slots :
        /\ calls[s].name = "delete_ticket"
        /\ calls[s].args = << >>
        /\ Failed(calls[s])

CommentsRequests(c) == {i \in 1..Len(c.reqs) : c.reqs[i].op = "getTicketComments"}

C7_BothStartedBothAwaited ==
    \A s \in Slots :
        LET c == calls[s]
        IN  (c.name = "search_feature_feedback" /\ c.args # << >>) =>
                /\ Len(c.reqs) = 2
                /\ {c.reqs[i].op : i \in 1..2} = {"searchTickets", "searchArticles"}
                /\ c.pc = "await" => \E i \in 1..2 : c.reqs[i].st # "resolved"
                /\ Returned(c) => \A i \in 1..2 : c.reqs[i].st = "resolved"

\* search_feature_feedback is suspended with the article search resolved and
\* the ticket search still in flight.
C7_Witness ==
    \E s \in Slots :
        /\ calls[s].name = "search_feature_feedback"
        /\ calls[s].pc = "await"
        /\ calls[s].reqs[1].st = "pending"
        /\ calls[s].reqs[2].st = "resolved"

\* C8: as soon as one search of search_feature_feedback has rejected, the
\* call has ended with an error envelope whose only content is "Error: "
\* followed by the message of a rejected search, whatever the state of the
\* other search.
C8_FailFast ==
    \A s \in Slots :
        LET c == calls[s]
        IN  (c.name = "search_feature_feedback" /\ Rejected(c) # {}) =>
                /\ Failed(c)
                /\ \E i \in Rejected(c) : Envelope(c) = ErrorEnvelope(c.reqs[i].err)

\* The article search has rejected after the ticket search resolved with a
\* page of tickets, and the call has ended with an error envelope.
C8_Witness ==
    \E s \in Slots :
        /\ calls[s].name = "search_feature_feedback"
        /\ Len(calls[s].reqs) = 2
        /\ calls[s].reqs[2].st = "rejected"
        /\ calls[s].reqs[1].st = "resolved"
        /\ Awaited(calls[s], 1).results # << >>
        /\ Failed(calls[s])

\* Request i of call c was answered with a status that is not 2xx and the
\* body of that response was read.
HttpError(c, i) == c.reqs[i].st = "rejected" /\ c.reqs[i].errorText # << >>

\* C9 as stated: every non-2xx response to a request of a call yields an
\* error envelope whose message contains the status code and the body of
\* that response.
C9_EveryHttpErrorReported ==
    \A s \in Slots :
        \A i \in 1..Len(calls[s].reqs) :
            HttpError(calls[s], i) =>
                /\ Failed(calls[s])
                /\ Contains(ErrorText(calls[s]), calls[s].reqs[i].status)
                /\ Contains(ErrorText(calls[s]), calls[s].reqs[i].errorText[1])

\* C9 as amended: a rejected request yields an error envelope, and the
\* message contains the status code and the body of a non-2xx response when
\* no other request of the call has failed.
C9_FirstHttpErrorReported ==
    \A s \in Slots :
        LET c == calls[s]
        IN  \A i \in 1..Len(c.reqs) :
                /\ c.reqs[i].st = "rejected" => Failed(c)
                /\ (HttpError(c, i) /\ Rejected(c) = {i}) =>
                        /\ Contains(ErrorText(c), c.reqs[i].status)
                        /\ Contains(ErrorText(c), c.reqs[i].errorText[1])

\* A get_ticket call has ended after its ticket fetch was answered with 404.
C9_Witness ==
    \E s \in Slots :
        /\ calls[s].name = "get_ticket"
        /\ Len(calls[s].reqs) = 1
        /\ HttpError(calls[s], 1)
        /\ calls[s].reqs[1].status = "404"
        /\ Failed(calls[s])
        /\ Contains(ErrorText(calls[s]), "404")

\* The decimal texts of the ids the remote state holds.
NumberTexts == {"1"}

\* The five read endpoints.
ReadEndpoint(path) ==
    \/ path = baseUrl \o <<"search.json">>
    \/ path = baseUrl \o <<"help_center", "articles", "search.json">>
    \/ \E id \in NumberTexts :
            \/ path = baseUrl \o <<"tickets", id \o ".json">>
            \/ path = baseUrl \o <<"tickets", id, "comments.json">>
            \/ path = baseUrl \o <<"help_center", "articles", id \o ".json">>

\* C10: every request issued is a GET to one of the five read endpoints.
C10_OnlyReadEndpoints ==
    \A s \in Slots :
        \A i \in 1..Len(calls[s].reqs) :
            /\ calls[s].reqs[i].method = "GET"
            /\ ReadEndpoint(calls[s].reqs[i].path)

SearchTicketsReturned(c) == c.name = "search_tickets" /\ Returned(c)

\* C11 as stated: the payload of a search_tickets call that returned lists
\* min(per_page, number of results in the response) tickets.
C11_CountIsMinOfPerPage ==
    \A s \in Slots :
        SearchTicketsReturned(calls[s]) =>
            Len(Payload(calls[s]).tickets) =
                Min(Payload(calls[s]).per_page, Len(Awaited(calls[s], 1).results))

\* C11 as amended: the payload lists exactly the tickets of the response,
\* in the same order, whatever per_page is.
C11_CountIsResponseCount ==
    \A s \in Slots :
        SearchTicketsReturned(calls[s]) =>
            LET tickets == Payload(calls[s]).tickets
                results == Awaited(calls[s], 1).results
            IN  /\ Len(tickets) = Len(results)
                /\ \A k \in 1..Len(results) : tickets[k].id = results[k].id

\* A search_tickets call with per_page = 1 has returned a payload for a
\* response that carried more than one ticket.
C11_Witness ==
    \E s \in Slots :
        /\ SearchTicketsReturned(calls[s])
        /\ Payload(calls[s]).per_page = 1
        /\ Len(Awaited(calls[s], 1).results) > 1


\* No list-tools or call-tool request is being handled and no HTTP request
\* has been issued.
NothingHandled ==
    /\ listing = {}
    /\ \A s \in Slots : calls[s] = Idle

\* One of the three configuration values is unset or is the empty string.
ConfigIncomplete == \E k \in EnvNames : env[k] \in {<< >>, <<"">>}

\* C12: when one of the three configuration values is unset or empty, the
\* process never gets past its first statement except by exiting with
\* status 1: it is never configured or connected, no list-tools or call-tool
\* request is handled and no HTTP request is issued.
C12_MissingConfigExits ==
    ConfigIncomplete =>
        /\ process.pc \in {"loading", "exited"}
        /\ process.pc = "exited" => process.exitCode = <<1>>
        /\ NothingHandled

\* C12 witness: the process has exited with status 1 because the API token
\* is the empty string while the other two values are set.
C12_Witness ==
    /\ env["ZENDESK_SUBDOMAIN"] = <<"acme">>
    /\ env["ZENDESK_EMAIL"] = <<"acme">>
    /\ env["ZENDESK_API_TOKEN"] = <<"">>
    /\ process = [pc |-> "exited", exitCode |-> <<1>>]


SingleRequestTools == {"search_tickets", "search_articles", "get_article", "get_tickets_by_tag"}

UtcToday == clock.now \div HoursPerDay

\* The date after `created>` in the query of a search_feature_feedback call
\* and of a getRecentTickets request.
FeedbackThreshold(c) == c.reqs[1].params[1].query[Len(c.args[1].feature_name) + 3]

RecentThreshold == recent[1].params[1].query[3]

\* C15 as stated: the date threshold of search_feature_feedback is the UTC
\* calendar date of today minus days_back days and the one of
\* getRecentTickets is the UTC calendar date of today minus 30 days, in
\* every time zone and across every daylight-saving shift.
C15_ThresholdIsUtcTodayMinusDays ==
    /\ \A s \in Slots :
            calls[s].name = "search_feature_feedback" /\ calls[s].reqs # << >> =>
                FeedbackThreshold(calls[s]) =
                    [utcDay |-> UtcToday - Default(calls[s].args[1].days_back, 90)]
    /\ recent # << >> => RecentThreshold = [utcDay |-> UtcToday - 30]


\* C16: in a get_ticket call a getTicketComments request exists only as the
\* second request and only once the ticket fetch has resolved, so a call
\* whose ticket fetch failed has issued no comments request; a call whose
\* comments fetch was rejected has ended with the error envelope of that
\* failure, whose only content is "Error: <message of the failure>" and no
\* field of the ticket.
C16_CommentsAfterTicket ==
    \A s \in Slots :
        LET c == calls[s]
        IN  c.name = "get_ticket" =>
                /\ \A i \in CommentsRequests(c) :
                        /\ i = 2
                        /\ c.reqs[1].op = "getTicket"
                        /\ c.reqs[1].st = "resolved"
                /\ 1 \in Rejected(c) => Len(c.reqs) = 1
                /\ \A i \in CommentsRequests(c) \cap Rejected(c) :
                        /\ Failed(c)
                        /\ Envelope(c) = ErrorEnvelope(c.reqs[i].err)

\* C16 witness: the ticket fetch of a get_ticket call returned a ticket, the
\* comments fetch was rejected and the call has ended with an error envelope.
C16_Witness ==
    \E s \in Slots :
        /\ calls[s].name = "get_ticket"
        /\ Len(calls[s].reqs) = 2
        /\ calls[s].reqs[1].st = "resolved"
        /\ Awaited(calls[s], 1).ticket # << >>
        /\ calls[s].reqs[2].op = "getTicketComments"
        /\ calls[s].reqs[2].st = "rejected"
        /\ Failed(calls[s])

====
